---- MODULE Spec2Model ----
(***************************************************************************)
(* Model of PSRunner (src/lanceur_commandes_gui.py, lines 69-135): the     *)
(* PowerShell process, the reader thread that forwards its output to a     *)
(* queue, and the Tk event loop that polls the queue with _pump_output.    *)
(*                                                                         *)
(* Sessions are numbered 1, 2, ... in the order of the successful Popen    *)
(* calls; session s owns process s, pipe s and reader thread s.  The       *)
(* reader thread iterates over the stdout of the process that run() has    *)
(* just created.  A line is the pair (session, index): the k-th line that  *)
(* process s wrote.  The queue item with k = 0 is the None marker.         *)
(***************************************************************************)
EXTENDS Integers, Sequences, FiniteSets, TLC

\* Bounds of the model.
MaxSessions == 2    \* successful Popen calls
MaxLines == 2       \* lines one process writes
MaxSignals == 2     \* terminate() signals sent to one process

\* Bounds of the specification of the App handlers (AppSpec).
MaxAppRuns == 1      \* processes started through App.run_selected
MaxItems == 2        \* length of the command list

Sessions == 1..MaxSessions

VARIABLES
  proc,         \* self.proc: 0 is None, s > 0 the Popen object of session s
  thread,       \* self.thread: 0 is None, s > 0 the reader thread of session s
  queue,        \* self.queue: sequence of items [src, k]
  stop_reader,  \* self._stop_reader (threading.Event)
  ticks,        \* number of root.after(50, self._pump_output) callbacks pending
  ui,           \* position of the UI thread: "idle", or "check" inside _pump_output
  pstate,       \* per session, the OS process: "none", "running", "closed", "exited"
  emitted,      \* per session, the number of lines the process has written
  nread,        \* per session, the number of lines the reader has taken from the pipe
  reader,       \* per session, the reader thread: "none", "read", "end", "done", "dead"
  signals,      \* per session, the number of terminate() signals sent to the process
  nruns,        \* number of sessions started so far
  stopreq,      \* per session, whether stop() was called while it was the current session
  calls,        \* the callbacks made so far: records [kind, src, k, cur]
  lastcall,     \* the last call of run() or stop(), or of a handler of the
                \* command list: [op, launch, raised], the outcome of Popen
                \* and the exception the caller received
  prog_running, \* App.prog_running
  text,         \* the content of the output widget App.text: sequence of chunks
  opened,       \* App._opened_file_path: "none" is None
  items,        \* CommandModel.items, each item by its associated file
  cwd,          \* CommandModel.cwd and App.cwd_var
  saved         \* the content of commands.json: [items, cwd]

vars == <<proc, thread, queue, stop_reader, ticks, ui, pstate, emitted, nread,
          reader, signals, nruns, stopreq, calls, lastcall, prog_running, text,
          opened, items, cwd, saved>>

\* The fields of the PSRunner object and the pending poll ticks.
runner == <<proc, thread, queue, stop_reader, ticks>>

\* The child processes, their pipes and the reader threads.
world == <<pstate, emitted, nread, reader>>

\* The command list, the working directory and the configuration file.
config == <<items, cwd, saved>>

\* What an item of the command list has as its file: no file, a .qmd file,
\* a file of another kind.
ItemFiles == {"nofile", "qmd", "other"}

\* The directories the user can choose.
Dirs == {"dir1", "dir2"}

\* The chunk of text that append_output inserts for a callback e, and the
\* chunk that is the content of an opened file.
Chunk(e) ==
  IF e.kind = "out" THEN [kind |-> "out", src |-> e.src, k |-> e.k]
  ELSE [kind |-> "banner", src |-> 0, k |-> 0]
FileChunk == [kind |-> "file", src |-> 0, k |-> 0]

\* The queue item that carries line k of session s; k = 0 is the None marker.
Item(s, k) == [src |-> s, k |-> k]

\* PSRunner.__init__: no process, no thread, an empty queue, the event clear.
\* App.__init__ after CommandModel.load: no progress, no opened file, an
\* empty output, and a configuration file that holds the loaded list.
Init ==
  /\ proc = 0
  /\ thread = 0
  /\ queue = <<>>
  /\ stop_reader = FALSE
  /\ ticks = 0
  /\ ui = "idle"
  /\ pstate = [s \in Sessions |-> "none"]
  /\ emitted = [s \in Sessions |-> 0]
  /\ nread = [s \in Sessions |-> 0]
  /\ reader = [s \in Sessions |-> "none"]
  /\ signals = [s \in Sessions |-> 0]
  /\ nruns = 0
  /\ stopreq = [s \in Sessions |-> FALSE]
  /\ calls = <<>>
  /\ lastcall = [op |-> "none", launch |-> "none", raised |-> "none"]
  /\ prog_running = FALSE
  /\ text = <<>>
  /\ opened = "none"
  /\ items = <<"qmd", "nofile">>
  /\ cwd = "dir1"
  /\ saved = [items |-> items, cwd |-> cwd]

\* PSRunner.is_running: self.proc is not None and self.proc.poll() is None.
\* poll() is None as long as the process has not exited, also after it has
\* closed its standard output.
is_running == proc # 0 /\ pstate[proc] \in {"running", "closed"}

----------------------------------------------------------------------------
\* PSRunner.run and the _pump_output call it ends with

\* The outcomes of subprocess.Popen: the process is created, or the
\* powershell executable is not found (FileNotFoundError).
LaunchOutcomes == {"ok", "notfound"}

\* The position of the first None marker in q, 0 when q holds none.
FirstMarker(q) ==
  IF \E i \in 1..Len(q) : q[i].k = 0
    THEN CHOOSE i \in 1..Len(q) : q[i].k = 0 /\ \A j \in 1..(i-1) : q[j].k # 0
    ELSE 0

\* The callbacks lines 118-123 make for one item: output_callback(item) for a
\* line; output_callback(banner) and on_exit() for the None marker.  cur is
\* self.proc at the time of the call.
Callbacks(item, cur) ==
  IF item.k = 0
    THEN << [kind |-> "banner", src |-> item.src, k |-> 0, cur |-> cur],
            [kind |-> "exit", src |-> item.src, k |-> 0, cur |-> cur] >>
    ELSE << [kind |-> "out", src |-> item.src, k |-> item.k, cur |-> cur] >>

RECURSIVE Deliver_lifo(_, _)
\* The callbacks as they would be made if the queue were read last item first.
Deliver_lifo(q, cur) ==
  IF q = <<>> THEN <<>>
  ELSE Deliver_lifo(Tail(q), cur) \o Callbacks(Head(q), cur)

RECURSIVE Deliver(_, _)
\* The callbacks made for the items of q, in queue order.
Deliver(q, cur) ==
  IF q = <<>> THEN <<>> ELSE Callbacks(Head(q), cur) \o Deliver(Tail(q), cur)

\* Lines 115-125 as they would be without the return of line 121: after the
\* marker the call goes on to line 126.
pump_drain_no_return(cur) ==
  LET m == FirstMarker(queue) IN
    /\ calls' = calls \o Deliver(IF m > 0 THEN SubSeq(queue, 1, m) ELSE queue,
                                 cur)
    /\ queue' = IF m > 0 THEN SubSeq(queue, m + 1, Len(queue)) ELSE <<>>
    /\ ui' = "check"

\* _pump_output, lines 115-125: get_nowait until the None marker (callbacks,
\* then return) or until queue.Empty (then go on to line 126).
pump_drain(cur) ==
  LET m == FirstMarker(queue) IN
    IF m > 0
      THEN /\ calls' = calls \o Deliver(SubSeq(queue, 1, m), cur)
           /\ queue' = SubSeq(queue, m + 1, Len(queue))
           /\ ui' = "idle"
      ELSE /\ calls' = calls \o Deliver(queue, cur)
           /\ queue' = <<>>
           /\ ui' = "check"

\* The items one _pump_output call takes from the queue.
Drained == IF FirstMarker(queue) > 0
             THEN SubSeq(queue, 1, FirstMarker(queue)) ELSE queue

\* App.append_output, lines 477-479, for the callbacks of one _pump_output
\* call: the output widget that held txt holds txt followed by the lines and
\* the banner passed to output_callback.
append_output(txt) ==
  LET c == SelectSeq(Deliver(Drained, 0), LAMBDA e : e.kind # "exit")
  IN txt \o [i \in 1..Len(c) |-> Chunk(c[i])]

\* App.on_process_exit, lines 533-535, for one _pump_output call:
\* _stop_progress() if on_exit is called, nothing otherwise.
on_process_exit(p) == IF FirstMarker(queue) > 0 THEN FALSE ELSE p

\* Lines 79-80 as they would be with the event cleared before the test.
run_raise_clears ==
  /\ stop_reader' = FALSE
  /\ lastcall' = [op |-> "run", launch |-> "none", raised |-> "RuntimeError"]
  /\ UNCHANGED <<proc, thread, queue, ticks, ui, world, signals, nruns,
                 stopreq, calls>>

\* Lines 79-80: raise RuntimeError when a process is running.
run_raise ==
  /\ lastcall' = [op |-> "run", launch |-> "none", raised |-> "RuntimeError"]
  /\ UNCHANGED <<runner, ui, world, signals, nruns, stopreq, calls>>

\* Lines 93-96: Popen raised FileNotFoundError; a message box is shown,
\* self.proc is set to None and run() returns normally.
run_notfound ==
  /\ proc' = 0
  /\ lastcall' = [op |-> "run", launch |-> "notfound", raised |-> "none"]
  /\ UNCHANGED <<thread, queue, stop_reader, ticks, ui, world, signals, nruns,
                 stopreq, calls>>

\* Lines 83-92 and 97-100: the process is created, the event is cleared, the
\* reader thread is started and _pump_output is called.
run_start ==
  /\ nruns < MaxSessions
  /\ LET s == nruns + 1 IN
       /\ nruns' = s
       /\ proc' = s
       /\ pstate' = [pstate EXCEPT ![s] = "running"]
       /\ stop_reader' = FALSE
       /\ thread' = s
       /\ reader' = [reader EXCEPT ![s] = "read"]
       /\ pump_drain(s)
  /\ lastcall' = [op |-> "run", launch |-> "ok", raised |-> "none"]
  /\ UNCHANGED <<ticks, emitted, nread, signals, stopreq>>

\* PSRunner.run, called from a handler of the UI thread.
run ==
  /\ ui = "idle"
  /\ IF is_running
       THEN run_raise
       ELSE \E o \in LaunchOutcomes :
              IF o = "notfound" THEN run_notfound ELSE run_start

----------------------------------------------------------------------------
\* PSRunner.stop

\* Lines 129-135 as they would be if stop() also emptied the queue.
stop_flushes_queue ==
  /\ ui = "idle"
  /\ IF is_running /\ proc # 0
       THEN /\ signals[proc] < MaxSignals
            /\ signals' = [signals EXCEPT ![proc] = @ + 1]
       ELSE signals' = signals
  /\ stop_reader' = TRUE
  /\ queue' = <<>>
  /\ stopreq' = IF proc # 0 THEN [stopreq EXCEPT ![proc] = TRUE] ELSE stopreq
  /\ lastcall' = [op |-> "stop", launch |-> "none", raised |-> "none"]
  /\ UNCHANGED <<proc, thread, ticks, ui, world, nruns, calls>>

\* Lines 129-135 as they would be if stop() also cancelled the polling.
stop_cancels_tick ==
  /\ ui = "idle"
  /\ IF is_running /\ proc # 0
       THEN /\ signals[proc] < MaxSignals
            /\ signals' = [signals EXCEPT ![proc] = @ + 1]
       ELSE signals' = signals
  /\ stop_reader' = TRUE
  /\ ticks' = 0
  /\ stopreq' = IF proc # 0 THEN [stopreq EXCEPT ![proc] = TRUE] ELSE stopreq
  /\ lastcall' = [op |-> "stop", launch |-> "none", raised |-> "none"]
  /\ UNCHANGED <<proc, thread, queue, ui, world, nruns, calls>>

\* Lines 129-135: terminate the process if it is running, then set the event.
stop ==
  /\ ui = "idle"
  /\ IF is_running /\ proc # 0
       THEN /\ signals[proc] < MaxSignals
            /\ signals' = [signals EXCEPT ![proc] = @ + 1]
       ELSE signals' = signals
  /\ stop_reader' = TRUE
  /\ stopreq' = IF proc # 0 THEN [stopreq EXCEPT ![proc] = TRUE] ELSE stopreq
  /\ lastcall' = [op |-> "stop", launch |-> "none", raised |-> "none"]
  /\ UNCHANGED <<proc, thread, queue, ticks, ui, world, nruns, calls>>

----------------------------------------------------------------------------
\* PSRunner._pump_output, called by the event loop

\* A pending tick fires: the event loop calls _pump_output.
Tick ==
  /\ ui = "idle"
  /\ ticks > 0
  /\ ticks' = ticks - 1
  /\ pump_drain(proc)
  /\ text' = append_output(text)
  /\ prog_running' = on_process_exit(prog_running)
  /\ UNCHANGED <<proc, thread, stop_reader, world, signals, nruns, stopreq,
                 lastcall, opened, config>>

\* The condition of line 126.
Reschedule == is_running \/ queue # <<>>

\* Lines 126-127: after queue.Empty, schedule the next tick or not.
PumpCheck ==
  /\ ui = "check"
  /\ ticks' = IF Reschedule THEN ticks + 1 ELSE ticks
  /\ ui' = "idle"
  /\ UNCHANGED <<proc, thread, queue, stop_reader, world, signals, nruns,
                 stopreq, calls, lastcall>>
  /\ UNCHANGED <<prog_running, text, opened, config>>

----------------------------------------------------------------------------
\* PSRunner._reader, the thread of session s

\* Lines 108-111, one turn of the loop: the next line of the pipe is read and
\* put on the queue, or dropped with a break when the event is set; the loop
\* ends when the process has closed its output and the pipe is empty.
ReaderLine(s) ==
  /\ reader[s] = "read"
  /\ IF nread[s] < emitted[s]
       THEN /\ nread' = [nread EXCEPT ![s] = @ + 1]
            /\ IF stop_reader
                 THEN /\ reader' = [reader EXCEPT ![s] = "end"]
                      /\ queue' = queue
                 ELSE /\ reader' = reader
                      /\ queue' = Append(queue, Item(s, nread[s] + 1))
       ELSE /\ pstate[s] # "running"
            /\ nread' = nread
            /\ reader' = [reader EXCEPT ![s] = "end"]
            /\ queue' = queue
  /\ UNCHANGED <<proc, thread, stop_reader, ticks, ui, pstate, emitted,
                 signals, nruns, stopreq, calls, lastcall>>
  /\ UNCHANGED <<prog_running, text, opened, config>>

\* Line 112 as it would be inside the loop: the marker is put and the
\* thread goes on reading.
ReaderEnd_in_loop(s) ==
  /\ reader[s] = "end"
  /\ queue' = Append(queue, Item(s, 0))
  /\ reader' = [reader EXCEPT ![s] = "read"]
  /\ UNCHANGED <<proc, thread, stop_reader, ticks, ui, pstate, emitted, nread,
                 signals, nruns, stopreq, calls, lastcall>>
  /\ UNCHANGED <<prog_running, text, opened, config>>

\* Line 112: put the None marker; the thread ends.
ReaderEnd(s) ==
  /\ reader[s] = "end"
  /\ queue' = Append(queue, Item(s, 0))
  /\ reader' = [reader EXCEPT ![s] = "done"]
  /\ UNCHANGED <<proc, thread, stop_reader, ticks, ui, pstate, emitted, nread,
                 signals, nruns, stopreq, calls, lastcall>>
  /\ UNCHANGED <<prog_running, text, opened, config>>

\* Line 108 raises (the bytes of the next line do not decode): nothing
\* catches the exception, the thread ends without putting the marker.
ReaderFail(s) ==
  /\ reader[s] = "read"
  /\ nread[s] < emitted[s]
  /\ nread' = [nread EXCEPT ![s] = @ + 1]
  /\ reader' = [reader EXCEPT ![s] = "dead"]
  /\ UNCHANGED <<runner, ui, pstate, emitted, signals, nruns, stopreq,
                 calls, lastcall>>
  /\ UNCHANGED <<prog_running, text, opened, config>>

----------------------------------------------------------------------------
\* The child process of session s (Popen arguments of lines 83-92)

\* The process writes a line to the pipe (stdout, with stderr merged).
ProcEmit(s) ==
  /\ pstate[s] = "running"
  /\ emitted[s] < MaxLines
  /\ emitted' = [emitted EXCEPT ![s] = @ + 1]
  /\ UNCHANGED <<runner, ui, pstate, nread, reader, signals, nruns,
                 stopreq, calls, lastcall>>
  /\ UNCHANGED <<prog_running, text, opened, config>>

\* The process closes its output; poll() still returns None.
ProcClose(s) ==
  /\ pstate[s] = "running"
  /\ pstate' = [pstate EXCEPT ![s] = "closed"]
  /\ UNCHANGED <<runner, ui, emitted, nread, reader, signals, nruns,
                 stopreq, calls, lastcall>>
  /\ UNCHANGED <<prog_running, text, opened, config>>

\* The process exits, by itself or by the termination signal.
ProcExit(s) ==
  /\ pstate[s] \in {"running", "closed"}
  /\ pstate' = [pstate EXCEPT ![s] = "exited"]
  /\ UNCHANGED <<runner, ui, emitted, nread, reader, signals, nruns,
                 stopreq, calls, lastcall>>
  /\ UNCHANGED <<prog_running, text, opened, config>>

----------------------------------------------------------------------------
\* Calls of the PSRunner methods by a caller that does nothing else

\* runner.run(): the callbacks of the _pump_output call of line 100 act on
\* the App.
call_run ==
  /\ run
  /\ IF nruns' > nruns
       THEN /\ text' = append_output(text)
            /\ prog_running' = on_process_exit(prog_running)
       ELSE UNCHANGED <<text, prog_running>>
  /\ UNCHANGED <<opened, config>>

\* runner.stop().
call_stop ==
  /\ stop
  /\ UNCHANGED <<prog_running, text, opened, config>>

----------------------------------------------------------------------------
\* The handlers of the App.  A handler runs on the UI thread between two
\* events; the dialogs of add_command and edit_command hold a grab until
\* they are closed, so that no process is started while one is open, and a
\* handler and its dialog are one step.

\* The record of a call of a handler of the command list.
Handler(op) == [op |-> op, launch |-> "none", raised |-> "none"]

\* CommandModel.save, lines 52-57.
Saved(its, dir) == [items |-> its, cwd |-> dir]

\* The list its without its element i (del self.model.items[idx]).
Without(its, i) == SubSeq(its, 1, i - 1) \o SubSeq(its, i + 1, Len(its))

\* App.run_selected, lines 503-516: without selection nothing happens;
\* otherwise the opened file is forgotten and the output widget emptied,
\* then runner.run() is called, and unless it raised RuntimeError the
\* progress bar is started.
run_selected ==
  IF items = <<>>
    THEN /\ ui = "idle"
         /\ lastcall' = Handler("run_selected")
         /\ UNCHANGED <<runner, ui, world, signals, nruns, stopreq, calls,
                        prog_running, text, opened, config>>
    ELSE /\ opened' = "none"
         /\ run
         /\ nruns' <= MaxAppRuns
         /\ text' = IF nruns' > nruns THEN append_output(<<>>) ELSE <<>>
         /\ prog_running' = IF lastcall'.raised = "RuntimeError"
                               THEN prog_running ELSE TRUE
         /\ UNCHANGED config

\* App.stop_running, lines 528-531: runner.stop(), then _stop_progress().
stop_running ==
  /\ stop
  /\ prog_running' = FALSE
  /\ UNCHANGED <<text, opened, config>>

\* Lines 574-577 as they would be without the test of is_running.
add_command_unguarded ==
  /\ ui = "idle"
  /\ lastcall' = Handler("add_command")
  /\ \E ok \in BOOLEAN, f \in ItemFiles :
       IF ok /\ Len(items) < MaxItems
         THEN /\ items' = Append(items, f)
              /\ saved' = Saved(items', cwd)
         ELSE UNCHANGED <<items, saved>>
  /\ UNCHANGED <<runner, ui, world, signals, nruns, stopreq, calls,
                 prog_running, text, opened, cwd>>

\* App.add_command, lines 574-577, and the dialog, lines 601-643: nothing
\* while a process is running; otherwise the dialog is cancelled, or closed
\* with OK: the new item is appended and the configuration saved.
add_command ==
  /\ ui = "idle"
  /\ lastcall' = Handler("add_command")
  /\ IF is_running
       THEN UNCHANGED <<items, saved>>
       ELSE \E ok \in BOOLEAN, f \in ItemFiles :
              IF ok /\ Len(items) < MaxItems
                THEN /\ items' = Append(items, f)
                     /\ saved' = Saved(items', cwd)
                ELSE UNCHANGED <<items, saved>>
  /\ UNCHANGED <<runner, ui, world, signals, nruns, stopreq, calls,
                 prog_running, text, opened, cwd>>

\* App.edit_command, lines 579-586, and the dialog: nothing while a process
\* is running or without selection; otherwise the dialog is cancelled, or
\* the selected item is replaced and the configuration saved.
edit_command ==
  /\ ui = "idle"
  /\ lastcall' = Handler("edit_command")
  /\ IF is_running \/ items = <<>>
       THEN UNCHANGED <<items, saved>>
       ELSE \E idx \in 1..Len(items), ok \in BOOLEAN, f \in ItemFiles :
              IF ok
                THEN /\ items' = [items EXCEPT ![idx] = f]
                     /\ saved' = Saved(items', cwd)
                ELSE UNCHANGED <<items, saved>>
  /\ UNCHANGED <<runner, ui, world, signals, nruns, stopreq, calls,
                 prog_running, text, opened, cwd>>

\* App.delete_command, lines 588-599: nothing while a process is running or
\* without selection; otherwise, if the user confirms, the selected item is
\* deleted and the configuration saved.
delete_command ==
  /\ ui = "idle"
  /\ lastcall' = Handler("delete_command")
  /\ IF is_running \/ items = <<>>
       THEN UNCHANGED <<items, saved>>
       ELSE \E idx \in 1..Len(items), yes \in BOOLEAN :
              IF yes
                THEN /\ items' = Without(items, idx)
                     /\ saved' = Saved(items', cwd)
                ELSE UNCHANGED <<items, saved>>
  /\ UNCHANGED <<runner, ui, world, signals, nruns, stopreq, calls,
                 prog_running, text, opened, cwd>>

\* App.open_associated_file, lines 310-349: nothing while a process is
\* running, without selection, for an item without file or for a file that
\* does not exist; otherwise the output widget holds the content of the
\* file, and the file is remembered if it is a .qmd file.
open_associated_file ==
  /\ ui = "idle"
  /\ lastcall' = Handler("open_associated_file")
  /\ IF is_running \/ items = <<>>
       THEN UNCHANGED <<text, opened>>
       ELSE \E idx \in 1..Len(items), exists \in BOOLEAN :
              IF items[idx] = "nofile" \/ ~exists
                THEN UNCHANGED <<text, opened>>
                ELSE /\ text' = <<FileChunk>>
                     /\ opened' = IF items[idx] = "qmd" THEN "path" ELSE "none"
  /\ UNCHANGED <<runner, ui, world, signals, nruns, stopreq, calls,
                 prog_running, config>>

\* App.choose_cwd, lines 537-546: nothing while a process is running or if
\* the directory dialog is cancelled; otherwise the chosen directory becomes
\* the working directory and the configuration is saved.
choose_cwd ==
  /\ ui = "idle"
  /\ lastcall' = Handler("choose_cwd")
  /\ IF is_running
       THEN UNCHANGED <<cwd, saved>>
       ELSE \E path \in Dirs \cup {""} :
              IF path # ""
                THEN /\ cwd' = path
                     /\ saved' = Saved(items, cwd')
                ELSE UNCHANGED <<cwd, saved>>
  /\ UNCHANGED <<runner, ui, world, signals, nruns, stopreq, calls,
                 prog_running, text, opened, items>>

----------------------------------------------------------------------------
Next ==
  \/ call_run
  \/ call_stop
  \/ Tick
  \/ PumpCheck
  \/ \E s \in Sessions : ReaderLine(s)
  \/ \E s \in Sessions : ReaderEnd(s)
  \/ \E s \in Sessions : ReaderFail(s)
  \/ \E s \in Sessions : ProcEmit(s)
  \/ \E s \in Sessions : ProcClose(s)
  \/ \E s \in Sessions : ProcExit(s)

Spec == Init /\ [][Next]_vars

\* The program driven through the handlers of the App.
AppNext ==
  \/ run_selected
  \/ stop_running
  \/ add_command
  \/ edit_command
  \/ delete_command
  \/ open_associated_file
  \/ choose_cwd
  \/ Tick
  \/ PumpCheck
  \/ \E s \in Sessions : ReaderLine(s)
  \/ \E s \in Sessions : ReaderEnd(s)
  \/ \E s \in Sessions : ReaderFail(s)
  \/ \E s \in Sessions : ProcEmit(s)
  \/ \E s \in Sessions : ProcClose(s)
  \/ \E s \in Sessions : ProcExit(s)

AppSpec == Init /\ [][AppNext]_vars

TypeOK ==
  /\ proc \in 0..MaxSessions
  /\ thread \in 0..MaxSessions
  /\ stop_reader \in BOOLEAN
  /\ ticks \in 0..MaxSessions
  /\ ui \in {"idle", "check"}
  /\ nruns \in 0..MaxSessions
  /\ prog_running \in BOOLEAN
  /\ opened \in {"none", "path"}
  /\ Len(items) <= MaxItems /\ \A i \in 1..Len(items) : items[i] \in ItemFiles
  /\ cwd \in Dirs
  /\ saved = Saved(items, cwd)
  /\ \A s \in Sessions : nread[s] <= emitted[s] /\ emitted[s] <= MaxLines

----------------------------------------------------------------------------
\* Vocabulary of the properties

\* Session s has been started by a successful run().
Started(s) == s <= nruns

\* The number of on_exit() calls made for the marker of session s.
ExitsOf(s) ==
  Cardinality({i \in 1..Len(calls) : calls[i].kind = "exit" /\ calls[i].src = s})

\* Line k of session s has been passed to output_callback.
Delivered(s, k) ==
  \E i \in 1..Len(calls) :
    calls[i].kind = "out" /\ calls[i].src = s /\ calls[i].k = k

\* What the receiver of a callback gets: the line, or the banner, or on_exit.
Seen(e) == IF e.kind = "out" THEN <<"out", e.src, e.k>> ELSE <<e.kind>>

\* The callbacks made while session s was the current one (self.proc).
During(s) ==
  LET d == SelectSeq(calls, LAMBDA e : e.cur = s)
  IN [i \in 1..Len(d) |-> Seen(d[i])]

\* The callbacks of a session whose process wrote the lines 1..emitted[s].
Expected(s) ==
  [k \in 1..emitted[s] |-> <<"out", s, k>>] \o << <<"banner">>, <<"exit">> >>

IsPrefix(a, b) == Len(a) <= Len(b) /\ \A i \in 1..Len(a) : a[i] = b[i]

\* Session s still has something to push or to be drained.
Active(s) ==
  \/ reader[s] \in {"read", "end"}
  \/ \E i \in 1..Len(queue) : queue[i].src = s

\* Nothing is left to do for the reader threads and the event loop: no
\* reader has a step it can take, no tick is pending, no handler is running.
Quiescent ==
  /\ ui = "idle"
  /\ ticks = 0
  /\ \A s \in Sessions :
       /\ reader[s] # "end"
       /\ reader[s] = "read" => (nread[s] = emitted[s] /\ pstate[s] = "running")

----------------------------------------------------------------------------
\* C1: every started session whose process exits, with no stop requested and
\* a reader that runs to its end, has had on_exit invoked exactly once by the
\* time the reader threads and the event loop have nothing left to do.
C1_OnExitOncePerSession ==
  \A s \in Sessions :
    (Started(s) /\ pstate[s] = "exited" /\ ~stopreq[s] /\ reader[s] = "done"
       /\ Quiescent)
    => ExitsOf(s) = 1

\* C2: at most one session is active at any time: no two reader tasks both
\* still have lines or a marker left to push or to be drained.
C2_AtMostOneActiveSession ==
  Cardinality({s \in Sessions : Active(s)}) <= 1

\* C3: a call of run() while is_running is true raises RuntimeError and
\* leaves the process reference, the reader thread, the queue, the stop flag
\* and the pending ticks as they were.
C3_RunWhileRunningRaises ==
  [][(run /\ is_running)
       => (lastcall'.raised = "RuntimeError" /\ UNCHANGED <<runner, world, calls>>)]_vars

\* Witness of C3: run() has just been rejected while the running session had
\* output on the queue, the stop flag set and a tick pending.
C3_Witness ==
  /\ lastcall.op = "run" /\ lastcall.raised = "RuntimeError"
  /\ is_running /\ queue # <<>> /\ stop_reader /\ ticks > 0

\* C4: for a session in which stop is never requested, the callbacks made
\* during the session are at every moment a prefix of output_callback(L1),
\* ..., output_callback(Ln), output_callback(banner), on_exit().
C4_CallbacksPrefix ==
  \A s \in Sessions :
    (Started(s) /\ ~stopreq[s]) => IsPrefix(During(s), Expected(s))

\* C5: immediately after an on_exit call, is_running is false.
C5_NotRunningAfterOnExit ==
  [][(Len(calls') > Len(calls) /\ calls'[Len(calls')].kind = "exit")
       => ~is_running']_vars

\* C6: when stop() was called while the process of a session was running,
\* on_exit for that session comes after every line the process has written,
\* the lines still in the pipe at the time of stop() included, and it comes
\* once.
C6_StopDeliversAllOutput ==
  \A s \in Sessions :
    (Started(s) /\ signals[s] >= 1 /\ ExitsOf(s) >= 1)
    => /\ \A k \in 1..emitted[s] : Delivered(s, k)
       /\ ExitsOf(s) = 1

\* C7: no item produced by one session is delivered during a later session.
C7_NoItemOfEarlierSession ==
  \A i \in 1..Len(calls) : calls[i].src = calls[i].cur

\* C8: when powershell is not found, run() raises a launch error to its
\* caller, is_running is false afterwards, and no session is created: no
\* reader thread is started, no tick is scheduled, nothing is put on the queue.
C8_LaunchErrorRaised ==
  [][(run /\ lastcall'.launch = "notfound")
       => /\ lastcall'.raised # "none"
          /\ ~is_running'
          /\ UNCHANGED <<thread, queue, ticks, world, nruns, calls>>]_vars

\* C9: stop() called when the process is not running changes no runner state.
C9_StopWhenNotRunningIsNoOp ==
  [][(stop /\ ~is_running) => UNCHANGED <<runner, signals>>]_vars

\* C10 as stated: the second of two stop() calls in a row sends no further
\* termination signal and leaves the runner state as the first call left it.
C10_SecondStopSendsNoSignal ==
  [][(stop /\ lastcall.op = "stop") => UNCHANGED <<runner, signals>>]_vars

\* C10 as amended: the second of two stop() calls in a row leaves the process
\* reference, the stop flag, the queue and the pending ticks as the first
\* call left them; it sends one more termination signal exactly when the
\* process is still running.
C10_SecondStopKeepsState ==
  [][(stop /\ lastcall.op = "stop")
       => /\ UNCHANGED <<runner, world, calls>>
          /\ stop_reader
          /\ signals' = IF is_running
                          THEN [signals EXCEPT ![proc] = @ + 1]
                          ELSE signals]_vars

\* Witness of C10: two stop() calls in a row have each signalled the process,
\* which is still running, while output waits on the queue.
C10_Witness ==
  /\ lastcall.op = "stop"
  /\ is_running /\ signals[proc] = 2
  /\ queue # <<>> /\ ticks > 0

----------------------------------------------------------------------------
\* More vocabulary

\* The lines of session s passed to output_callback, in the order of the calls.
LinesOf(s) == SelectSeq(calls, LAMBDA e : e.kind = "out" /\ e.src = s)

\* The number of None markers the reader of session s has put: those still
\* on the queue and those already drained.
MarkersOf(s) ==
  Cardinality({i \in 1..Len(queue) : queue[i].src = s /\ queue[i].k = 0})
    + ExitsOf(s)

\* A line of session s waits on the queue q.
LineQueued(q, s) == \E i \in 1..Len(q) : q[i].src = s /\ q[i].k > 0

\* The number of on_exit() calls in the sequence c.
Exits(c) == Cardinality({i \in 1..Len(c) : c[i].kind = "exit"})

\* The started sessions whose marker has not been drained yet.
Unfinalized == {s \in Sessions : Started(s) /\ ExitsOf(s) = 0}

\* C11: once the marker of a session has been drained, no line of that
\* session is left to be delivered, on_exit is not invoked again for it (the
\* on_exit calls never outnumber the started sessions), and no poll tick
\* remains scheduled for it: the pending ticks never outnumber the started
\* sessions whose marker has not been drained yet.
C11_NothingAfterMarkerDrained ==
  /\ \A s \in Sessions :
       ExitsOf(s) >= 1 => (reader[s] = "done" /\ ~LineQueued(queue, s))
  /\ \A s \in Sessions : ExitsOf(s) <= 1
  /\ Exits(calls) <= nruns
  /\ ticks <= Cardinality(Unfinalized)

\* Witness of C11: the markers of two sessions have been drained after a line
\* of each, and no tick is left.
C11_Witness ==
  /\ ui = "idle" /\ ticks = 0
  /\ \A s \in Sessions : Delivered(s, 1) /\ ExitsOf(s) = 1

\* C12: the lines of a session passed to output_callback are each a line its
\* process wrote, each passed at most once, in the order the process wrote
\* them.
C12_LinesOnceInOrder ==
  \A s \in Sessions :
    LET L == LinesOf(s) IN
      /\ \A i \in 1..Len(L) : L[i].k \in 1..emitted[s]
      /\ \A i, j \in 1..Len(L) : i < j => L[i].k < L[j].k

\* Witness of C12: both lines of a session have been delivered, in two
\* _pump_output calls, in a session in which stop() was requested.
C12_Witness ==
  \E s \in Sessions :
    /\ stopreq[s] /\ Len(LinesOf(s)) = 2
    /\ \E i \in 1..Len(calls) : calls[i].kind = "out" /\ calls[i].src # s

\* C13: a reader that failed with an exception while reading has still put
\* its None marker.
C13_FailedReaderPutsMarker ==
  \A s \in Sessions : reader[s] = "dead" => MarkersOf(s) >= 1

\* The handlers that begin with a test of is_running.
GuardedHandlers ==
  {"add_command", "edit_command", "delete_command", "open_associated_file",
   "choose_cwd"}

\* C14: while a process is running, add_command, edit_command,
\* delete_command, open_associated_file and choose_cwd leave the command
\* list, the working directory, the configuration file and the output widget
\* unchanged.
C14_GuardedHandlersChangeNothing ==
  [][(is_running /\ (\/ add_command \/ edit_command \/ delete_command
                     \/ open_associated_file \/ choose_cwd))
       => UNCHANGED <<items, cwd, saved, text, opened>>]_vars

\* Witness of C14: one of these handlers was called while a process was
\* running that has output on display.
C14_Witness ==
  /\ is_running /\ lastcall.op \in GuardedHandlers
  /\ \E i \in 1..Len(text) : text[i].kind = "out"

\* C15: from a successful run() until the marker of the session is drained,
\* a tick is pending whenever _pump_output is not executing.
C15_TickPendingUntilMarker ==
  \A s \in Sessions :
    (Started(s) /\ ExitsOf(s) = 0 /\ ui = "idle") => ticks > 0

\* C16: stop() makes no callback, removes nothing from the queue and cancels
\* no tick; on_exit is invoked only by a _pump_output call that finds a None
\* marker on the queue, and when it is invoked for a session no line of that
\* session is left on the queue.
C16_StopDoesNotFinalize ==
  [][/\ stop => UNCHANGED <<calls, queue, ticks>>
     /\ Exits(calls') > Exits(calls)
          => ((Tick \/ run) /\ FirstMarker(queue) > 0)
     /\ \A s \in Sessions :
          ExitsOf(s)' > ExitsOf(s) => ~LineQueued(queue', s)]_vars

\* Witness of C16: stop() was the last call, a line that was on the queue
\* has been delivered and on_exit has followed it.
C16_Witness ==
  /\ lastcall.op = "stop"
  /\ \E s \in Sessions :
       /\ signals[s] >= 1 /\ Delivered(s, 1) /\ ExitsOf(s) = 1
       /\ calls[Len(calls)].kind = "exit" /\ calls[Len(calls)].src = s

\* C17: a reader that has run to its end has put exactly one None marker, a
\* reader that has not has put none, and nothing of a session follows its
\* marker on the queue: after the end of the stream or after the stop flag
\* was observed no further line is put.
C17_OneMarkerLast ==
  \A s \in Sessions :
    /\ MarkersOf(s) = IF reader[s] = "done" THEN 1 ELSE 0
    /\ \A i, j \in 1..Len(queue) :
         (queue[i].src = s /\ queue[i].k = 0 /\ i < j) => queue[j].src # s
    /\ ExitsOf(s) >= 1 => \A i \in 1..Len(queue) : queue[i].src # s

\* Witness of C17: a reader observed the stop flag with a line left, dropped
\* it, put its marker after the line it had put before, and the marker has
\* been drained.
C17_Witness ==
  \E s \in Sessions :
    /\ reader[s] = "done" /\ stop_reader /\ nread[s] = 2
    /\ Delivered(s, 1) /\ ~Delivered(s, 2) /\ ExitsOf(s) = 1


\* C18: a call of run_selected rejected because a process is running leaves
\* the output widget and the opened file unchanged.
C18_RejectedRunKeepsOutput ==
  [][(run_selected /\ is_running) => UNCHANGED <<text, opened>>]_vars

\* C19: the progress bar is active only while a session is in progress:
\* prog_running implies that the current process was started and that its
\* on_exit has not been called.
C19_ProgressOnlyDuringSession ==
  prog_running => (proc # 0 /\ ExitsOf(proc) = 0)

\* C20: at most one _pump_output tick is pending at any time.
C20_AtMostOneTick ==
  ticks <= 1
====
